---- MODULE Spec2Model ----
(***************************************************************************)
(* A model of yass/config.py: the FrozenJSON facade and the Config object  *)
(* built on it (schema validation, parameter derivation, the batch plan    *)
(* and the write guard).                                                    *)
(*                                                                          *)
(* Python values are pairs <<tag, payload>>:                                *)
(*   <<"none", 0>>        None                                              *)
(*   <<"int", n>>         the int n                                         *)
(*   <<"float", q>>       the float q/4 (quarters are exact in binary      *)
(*                        floating point, so products with small ints are)  *)
(*   <<"str", s>>         the str s                                         *)
(*   <<"map", items>>     a Mapping; items is the sequence of <<key, value>>*)
(*                        pairs in the order mapping.items() yields them    *)
(*   <<"list", elems>>    a list (a MutableSequence)                        *)
(*   <<"tuple", elems>>   a tuple (a sequence that is not mutable)          *)
(*   <<"obj", s>>         an opaque result of the geometry collaborator     *)
(*   <<"FrozenJSON", d>>  a FrozenJSON instance whose __dict__ is d         *)
(*   <<"member", name>>   the bound member `name` of the raw dict           *)
(*   <<"keys", S>>        the result of dict.keys(): the key set S          *)
(* A dict is a function from its keys to its values.                        *)
(***************************************************************************)
EXTENDS Integers, Sequences, FiniteSets, TLC

VARIABLES
    cls,         \* the class being instantiated: "FrozenJSON" or "Config"
    arg,         \* the constructor's argument
    validator,   \* the mapping loaded from assets/config_validator.yaml
    file_size,   \* path.getsize of the recording file
    pc,          \* position of the construction
    __dict__,    \* the instance's attributes (among them _data, the store)
    call,        \* the last call external code made on the object
    ret,         \* what that call returned
    exc          \* the exception the last operation raised, NoExc if none

vars == <<cls, arg, validator, file_size, pc, __dict__, call, ret, exc>>

-----------------------------------------------------------------------------
\* Values

None == <<"none", 0>>
PyInt(n) == <<"int", n>>
PyFloat(q) == <<"float", q>>
PyStr(s) == <<"str", s>>
PyMap(items) == <<"map", items>>
PyList(elems) == <<"list", elems>>
PyTuple(elems) == <<"tuple", elems>>

NoExc == <<"none", 0>>
Return(v) == <<"return", v>>
Raise(e) == <<"raise", e>>

EmptyDict == [k \in {} |-> None]

\* d[k] = v
SetItem(d, k, v) == [x \in (DOMAIN d) \cup {k} |-> IF x = k THEN v ELSE d[x]]

\* isinstance(arg, Mapping), isinstance(arg, MutableSequence)
IsMapping(v) == v[1] = "map"
IsMutableSequence(v) == v[1] = "list"

\* keyword.iskeyword: the words reserved in Python 2 and in Python 3 alike
kwlist ==
    {"and", "as", "assert", "break", "class", "continue", "def", "del",
     "elif", "else", "except", "finally", "for", "from", "global", "if",
     "import", "in", "is", "lambda", "not", "or", "pass", "raise", "return",
     "try", "while", "with", "yield"}

iskeyword(key) == key \in kwlist

\* hasattr(self._data, name): the public members of a dict, and two of its
\* special ones
DictMembers ==
    {"clear", "copy", "fromkeys", "get", "items", "keys", "pop", "popitem",
     "setdefault", "update", "values", "__len__", "__contains__"}

hasattr_data(name) == name \in DictMembers

Logger == <<"obj", "logging.getLogger(yass.config)">>

-----------------------------------------------------------------------------
\* FrozenJSON

\* StoredKey without the keyword test
StoredKeyAsIs(key) == key

\* What is stored under a supplied key: key += '_' for a keyword.
StoredKey(key) == IF iskeyword(key) THEN key \o "_" ELSE key

\* The loop of FrozenJSON.__init__ over mapping.items().
RECURSIVE StoreItems(_, _)
StoreItems(data, items) ==
    IF Len(items) = 0 THEN data
    ELSE StoreItems(SetItem(data, StoredKey(Head(items)[1]), Head(items)[2]),
                    Tail(items))

\* FrozenJSON.__init__(self, mapping): the instance's __dict__ afterwards.
FrozenJSON__init__(mapping) ==
    [_logger |-> Logger,
     _path_to_file |-> None,
     _data |-> StoreItems(EmptyDict, mapping[2])]

\* FrozenJSON whose list branch returns the items as they are
FrozenJSONShallow(a) ==
    IF IsMapping(a) THEN <<"FrozenJSON", FrozenJSON__init__(a)>>
    ELSE IF IsMutableSequence(a) THEN PyList(a[2])
    ELSE a

\* FrozenJSON(arg): __new__, and __init__ when __new__ returned an instance.
RECURSIVE FrozenJSON(_)
FrozenJSON(a) ==
    IF IsMapping(a) THEN <<"FrozenJSON", FrozenJSON__init__(a)>>
    ELSE IF IsMutableSequence(a)
         THEN PyList([i \in 1..Len(a[2]) |-> FrozenJSON(a[2][i])])
         ELSE a

\* FrozenJSON.__getattr__(self, name), self given by its __dict__.
__getattr__(self, name) ==
    IF hasattr_data(name) THEN Return(<<"member", name>>)
    ELSE IF name \in DOMAIN self["_data"]
         THEN Return(FrozenJSON(self["_data"][name]))
         ELSE Raise(<<"KeyError", name>>)

\* self._data.get(key)
dict_get(d, key) == IF key \in DOMAIN d THEN d[key] ELSE None

\* __getitem__ testing `if not value` in place of `if value is None`
__getitem__Falsy(self, key) ==
    LET value == dict_get(self["_data"], key) IN
    IF value \in {None, PyInt(0), PyStr(""), PyList(<<>>), PyMap(<<>>)}
    THEN Raise(<<"ValueError",
                 <<"No value was set", self["_path_to_file"], key,
                   DOMAIN self["_data"]>> >>)
    ELSE Return(value)

\* FrozenJSON.__getitem__(self, key)
__getitem__(self, key) ==
    LET value == dict_get(self["_data"], key) IN
    IF value = None
    THEN Raise(<<"ValueError",
                 <<"No value was set", self["_path_to_file"], key,
                   DOMAIN self["_data"]>> >>)
    ELSE Return(value)

-----------------------------------------------------------------------------
\* Config: validation

\* bool(valid_values) for what a schema entry can be: None or a list
Truthy(v) == IF v[1] = "list" THEN Len(v[2]) > 0 ELSE v # None

\* a == b on scalars: numbers compare by value, everything else by identity
\* of type and content
PyEq(a, b) ==
    IF a[1] = "int" /\ b[1] = "float" THEN 4 * a[2] = b[2]
    ELSE IF a[1] = "float" /\ b[1] = "int" THEN a[2] = 4 * b[2]
    ELSE a = b

\* value in valid_values
Contains(lst, value) == \E i \in 1..Len(lst[2]) : PyEq(lst[2][i], value)

\* x + y: defined on two numbers or two strings
PyAdd(x, y) ==
    IF x[1] = "str" /\ y[1] = "str" THEN Return(PyStr(x[2] \o y[2]))
    ELSE IF x[1] = "int" /\ y[1] = "int" THEN Return(PyInt(x[2] + y[2]))
    ELSE Raise(<<"TypeError", "unsupported operand type(s) for +">>)

\* reduce(function, it) with function = lambda x, y: x+', '+y
RECURSIVE reduce(_, _)
reduce(acc, rest) ==
    IF Len(rest) = 0 THEN Return(acc)
    ELSE LET left == PyAdd(acc, PyStr(", ")) IN
         IF left[1] = "raise" THEN left
         ELSE LET both == PyAdd(left[2], Head(rest)) IN
              IF both[1] = "raise" THEN both
              ELSE reduce(both[2], Tail(rest))

\* Config._pretty_iterator(self, it)
_pretty_iterator(it) ==
    IF Len(it[2]) = 0
    THEN Raise(<<"TypeError", "reduce() of empty sequence">>)
    ELSE reduce(Head(it[2]), Tail(it[2]))

\* Config._validate(self, mapping): the loop over mapping.items(), with
\* validator the mapping loaded from the schema resource
RECURSIVE _validate(_, _)
_validate(items, schema) ==
    IF Len(items) = 0 THEN Return(None)
    ELSE LET key == Head(items)[1]
             value == Head(items)[2]
             valid_values == dict_get(schema, key)
         IN  IF Truthy(valid_values) /\ ~Contains(valid_values, value)
             THEN LET valid_values_pretty == _pretty_iterator(valid_values) IN
                  IF valid_values_pretty[1] = "raise" THEN valid_values_pretty
                  ELSE Raise(<<"ValueError",
                               <<"is not a valid value", value, key,
                                 valid_values_pretty[2]>> >>)
             ELSE _validate(Tail(items), schema)

-----------------------------------------------------------------------------
\* Config: derivation

\* Config._set_param(self, name, value)
_set_param(self, name, value) ==
    [self EXCEPT !["_data"] = SetItem(@, name, value)]

\* self.<name> for each name in turn: the first exception raised, if any
RECURSIVE FirstRaise(_, _)
FirstRaise(self, names) ==
    IF Len(names) = 0 THEN NoExc
    ELSE LET r == __getattr__(self, Head(names)) IN
         IF r[1] = "raise" THEN r[2] ELSE FirstRaise(self, Tail(names))

\* self.<name>, where the read is known not to raise
Attr(self, name) == __getattr__(self, name)[2]

\* sizeof(dtype)
SIZE_ == [t \in {"int16", "uint16", "single", "double"} |->
             CASE t = "int16" -> 2
               [] t = "uint16" -> 2
               [] t = "single" -> 4
               [] t = "double" -> 8]

sizeof(dtype) ==
    IF dtype[1] = "str" /\ dtype[2] \in DOMAIN SIZE_
    THEN Return(SIZE_[dtype[2]])
    ELSE Raise(<<"KeyError", dtype[2]>>)

\* np.round(n/d) for n >= 0, d > 0: to the nearest integer, halves to even
RoundHalfEven(n, d) ==
    LET q == n \div d
        r == n % d
    IN  IF 2 * r < d THEN q
        ELSE IF 2 * r > d THEN q + 1
        ELSE IF q % 2 = 0 THEN q ELSE q + 1

\* np.floor(n/d) and np.ceil(n/d) for n >= 0, d > 0
Floor(n, d) == n \div d
Ceil(n, d) == (n + d - 1) \div d

\* the collaborators in yass.geometry, whose results are opaque here
geom_parse == <<"obj", "geom.parse">>
geom_find_channel_neighbors == <<"obj", "geom.find_channel_neighbors">>
geom_make_channel_groups == <<"obj", "geom.make_channel_groups">>

\* GEOMETRY PARAMETERS: <<the __dict__ afterwards, the exception raised>>
GeometryParams(self) ==
    LET e1 == FirstRaise(self, <<"root", "geomFile", "nChan">>)
        s1 == _set_param(self, "geom", geom_parse)
        e2 == FirstRaise(s1, <<"geom", "spatialRadius">>)
        s2 == _set_param(s1, "neighChannels", geom_find_channel_neighbors)
        e3 == FirstRaise(s2, <<"nChan", "neighChannels", "geom">>)
        s3 == _set_param(s2, "channelGroups", geom_make_channel_groups)
    IN  IF e1 # NoExc THEN <<self, e1>>
        ELSE IF e2 # NoExc THEN <<s1, e2>>
        ELSE IF e3 # NoExc THEN <<s2, e3>>
        ELSE <<s3, NoExc>>

\* BUFFER/SPIKE SIZE PARAMETERS
SpikeParams(self) ==
    LET e1 == FirstRaise(self, <<"spikeSizeMS", "srate">>)
        spikeSize == RoundHalfEven(Attr(self, "spikeSizeMS")[2]
                                     * Attr(self, "srate")[2], 2 * 1000)
        s1 == _set_param(self, "spikeSize", PyInt(spikeSize))
        s2 == _set_param(s1, "scaleToSave", PyInt(100))
        s3 == _set_param(s2, "BUFF", PyInt(Attr(s2, "spikeSize")[2] * 4))
        s4 == _set_param(s3, "templatesMaxShift",
                         PyInt(Attr(s3, "srate")[2] \div 1000))
        s5 == _set_param(s4, "stdFactor", PyInt(4))
    IN  IF e1 # NoExc THEN <<self, e1>> ELSE <<s5, NoExc>>

\* size and dsize: the total sample count and the element byte size
SizeParams(self, fsize) ==
    LET e1 == FirstRaise(self, <<"root", "filename", "dtype">>)
        sz == sizeof(Attr(self, "dtype"))
        e2 == FirstRaise(self, <<"nChan">>)
        den == sz[2] * Attr(self, "nChan")[2]
        s1 == _set_param(self, "size", PyInt(fsize \div den))
        s2 == _set_param(s1, "dsize", PyInt(sz[2]))
    IN  IF e1 # NoExc THEN <<self, e1>>
        ELSE IF sz[1] = "raise" THEN <<self, sz[2]>>
        ELSE IF e2 # NoExc THEN <<self, e2>>
        ELSE IF den = 0
             THEN <<self, <<"ZeroDivisionError", "division by zero">> >>
        ELSE <<s2, NoExc>>

\* batch_size > self.size
SingleBatch(batch_size, size) == batch_size > size

\* NBatches rounding down
NBatchesFloor(size, batch_size) == Floor(size, batch_size)

\* int(np.ceil(float(self.size)/batch_size))
NBatches(size, batch_size) == Ceil(size, batch_size)

\* self.size % batch_size
Residual(size, batch_size) == size % batch_size

\* NPortion rounding down
NPortionFloor(partialDat, nBatches) ==
    LET quarters == IF partialDat[1] = "float" THEN partialDat[2]
                    ELSE 4 * partialDat[2]
    IN  PyFloat(4 * Floor(quarters * nBatches, 4))

\* np.ceil(self.partialDat*self.nBatches), partialDat a float or an int
NPortion(partialDat, nBatches) ==
    LET quarters == IF partialDat[1] = "float" THEN partialDat[2]
                    ELSE 4 * partialDat[2]
    IN  PyFloat(4 * Ceil(quarters * nBatches, 4))

\* BATCH PARAMETERS
BatchParams(self) ==
    LET e1 == FirstRaise(self, <<"maxMem", "nChan", "dsize">>)
        batch_size == Floor(Attr(self, "maxMem")[2],
                            Attr(self, "nChan")[2] * Attr(self, "dsize")[2])
        size == Attr(self, "size")[2]
        a1 == _set_param(self, "nBatches", PyInt(1))
        a2 == _set_param(a1, "batch_size", PyInt(size))
        a3 == _set_param(a2, "residual", PyInt(0))
        a4 == _set_param(a3, "nPortion", PyInt(1))
        b1 == _set_param(self, "nBatches", PyInt(NBatches(size, batch_size)))
        b2 == _set_param(b1, "batch_size", PyInt(batch_size))
        b3 == _set_param(b2, "residual", PyInt(Residual(size, batch_size)))
        e2 == FirstRaise(b3, <<"partialDat", "nBatches">>)
        b4 == _set_param(b3, "nPortion",
                         NPortion(Attr(b3, "partialDat"),
                                  Attr(b3, "nBatches")[2]))
    IN  IF e1 # NoExc THEN <<self, e1>>
        ELSE IF SingleBatch(batch_size, size) THEN <<a4, NoExc>>
        ELSE IF batch_size = 0
             THEN <<self, <<"ZeroDivisionError", "float division by zero">> >>
        ELSE IF e2 # NoExc THEN <<b3, e2>>
        ELSE <<b4, NoExc>>

\* __setattr__ without the test of the name
__setattr__Unguarded(self, name, value) == <<SetItem(self, name, value), NoExc>>

\* Config.__setattr__(self, name, value)
__setattr__(self, name, value) ==
    IF ~(Len(name) >= 1 /\ SubSeq(name, 1, 1) = "_")
    THEN <<self, <<"AttributeError", "Cannot set values once the object has been initialized">> >>
    ELSE <<SetItem(self, name, value), NoExc>>

-----------------------------------------------------------------------------
\* Inputs

MaxLen == 2          \* longest list drawn
MaxItems == 2        \* most items in a mapping handed to FrozenJSON
MaxExtra == 2        \* most extra keys in a mapping handed to Config
MaxChan == 2         \* largest nChan
MaxMem == 8          \* largest maxMem, in bytes
MaxFileSize == 8     \* largest recording file, in bytes
MaxPartialDat == 4   \* largest partialDat, in quarters

SeqsUpTo(S, n) == UNION {[1..k -> S] : k \in 0..n}

\* sequences of items whose keys are pairwise different, as a dict's are
ItemsUpTo(K, V, n) ==
    {s \in SeqsUpTo(K \X V, n) :
        \A i, j \in 1..Len(s) : s[i][1] = s[j][1] => i = j}

Scalars == {None, PyInt(0), PyStr("a")}

Nested ==
    Scalars \cup
    {PyList(<<PyInt(0)>>),
     PyTuple(<<PyInt(0)>>),
     PyMap(<< <<"class", PyInt(1)>> >>),
     PyList(<<PyMap(<< <<"a", None>> >>)>>)}

FrozenKeys == {"a", "class", "class_", "keys"}

FrozenArgs ==
    Scalars \cup {PyTuple(<<PyInt(0)>>)}
    \cup {PyList(s) : s \in SeqsUpTo(Nested, MaxLen)}
    \cup {PyMap(s) : s \in ItemsUpTo(FrozenKeys, Nested, MaxItems)}

\* the keys Config.__init__ reads, then the caller's extra keys
ConfigMapping(nChan, dtype, maxMem, partialDat, omit, extra) ==
    LET base == << <<"root", PyStr("/data")>>,
                   <<"geomFile", PyStr("geom.txt")>>,
                   <<"nChan", PyInt(nChan)>>,
                   <<"spatialRadius", PyInt(70)>>,
                   <<"spikeSizeMS", PyInt(1)>>,
                   <<"srate", PyInt(30000)>>,
                   <<"filename", PyStr("rec.bin")>>,
                   <<"dtype", PyStr(dtype)>>,
                   <<"maxMem", PyInt(maxMem)>>,
                   <<"partialDat", PyFloat(partialDat)>> >>
        kept(item) == item[1] \notin omit
    IN  PyMap(SelectSeq(base, kept) \o extra)

Dtypes == {"int16", "single", "float32"}

ExtraKeys == {"detector", "size", "class", "class_"}
ExtraValues == {PyStr("nn"), PyInt(3)}

PermittedLists ==
    {None,
     PyList(<<>>),
     PyList(<<PyStr("nn")>>),
     PyList(<<PyStr("nn"), PyStr("threshold")>>),
     PyList(<<PyInt(3)>>),
     PyList(<<PyInt(1), PyInt(2)>>)}

Validators ==
    {EmptyDict} \cup {[k \in {"detector"} |-> l] : l \in PermittedLists}

-----------------------------------------------------------------------------
\* Construction

\* Phases with the store filled before validation
PhasesStoreFirst(c) ==
    IF c = "Config"
    THEN <<"init", "validate", "geometry", "spike", "size", "batch", "done">>
    ELSE <<"init", "done">>

\* the order of Config.__init__ and of FrozenJSON.__init__
Phases(c) ==
    IF c = "Config"
    THEN <<"validate", "init", "geometry", "spike", "size", "batch", "done">>
    ELSE <<"init", "done">>

After(c, p) ==
    LET i == CHOOSE i \in 1..Len(Phases(c)) : Phases(c)[i] = p
    IN  Phases(c)[i + 1]

InitFrozen ==
    /\ cls = "FrozenJSON"
    /\ arg \in FrozenArgs
    /\ validator = EmptyDict
    /\ file_size = 0

\* the arithmetic of the batch plan over all its inputs
InitPlan ==
    /\ cls = "Config"
    /\ \E nChan \in 0..MaxChan, dtype \in Dtypes, maxMem \in 0..MaxMem,
          partialDat \in 0..MaxPartialDat, omit \in {{}, {"partialDat"}} :
          arg = ConfigMapping(nChan, dtype, maxMem, partialDat, omit, <<>>)
    /\ validator = [k \in {"detector"} |->
                       PyList(<<PyStr("nn"), PyStr("threshold")>>)]
    /\ file_size \in 0..MaxFileSize

\* the caller's extra keys against the schemas
InitKeys ==
    /\ cls = "Config"
    /\ \E omit \in {{}, {"spatialRadius"}},
          extra \in ItemsUpTo(ExtraKeys, ExtraValues, MaxExtra) :
          arg = ConfigMapping(1, "int16", 4, 2, omit, extra)
    /\ validator \in Validators
    /\ file_size = 8

Init ==
    /\ InitFrozen \/ InitPlan \/ InitKeys
    /\ pc = "new"
    /\ __dict__ = EmptyDict
    /\ call = <<"construct">>
    /\ ret = None
    /\ exc = NoExc

\* cls.__new__(cls, arg)
New ==
    /\ pc = "new"
    /\ IF IsMapping(arg)
       THEN pc' = Head(Phases(cls)) /\ ret' = ret
       ELSE pc' = "returned" /\ ret' = FrozenJSON(arg)
    /\ UNCHANGED <<cls, arg, validator, file_size, __dict__, call, exc>>

\* self._validate(mapping)
Validate ==
    /\ pc = "validate"
    /\ LET r == _validate(arg[2], validator) IN
       IF r[1] = "raise"
       THEN pc' = "error" /\ exc' = r[2]
       ELSE pc' = After(cls, "validate") /\ exc' = exc
    /\ UNCHANGED <<cls, arg, validator, file_size, __dict__, call, ret>>

\* FrozenJSON.__init__(self, mapping)
InitStore ==
    /\ pc = "init"
    /\ __dict__' = FrozenJSON__init__(arg)
    /\ pc' = After(cls, "init")
    /\ UNCHANGED <<cls, arg, validator, file_size, call, ret, exc>>

\* one block of Config.__init__ after the store is filled
Derive(phase, r) ==
    /\ pc = phase
    /\ __dict__' = r[1]
    /\ IF r[2] # NoExc
       THEN pc' = "error" /\ exc' = r[2]
       ELSE pc' = After(cls, phase) /\ exc' = exc
    /\ UNCHANGED <<cls, arg, validator, file_size, call, ret>>

DeriveGeometry == pc = "geometry" /\ Derive("geometry", GeometryParams(__dict__))

DeriveSpike == pc = "spike" /\ Derive("spike", SpikeParams(__dict__))

DeriveSize == pc = "size" /\ Derive("size", SizeParams(__dict__, file_size))

DeriveBatch == pc = "batch" /\ Derive("batch", BatchParams(__dict__))

-----------------------------------------------------------------------------
\* Use of the constructed object

AttrNames == {"a", "class", "class_", "keys", "nBatches", "missing"}
ItemKeys == {"a", "class", "class_", "nBatches", "missing"}
SetNames == {"a", "nBatches", "", "_path_to_file"}
SetValues == {PyStr("cfg.yaml")}

Outcome(r) ==
    IF r[1] = "raise" THEN ret' = None /\ exc' = r[2]
    ELSE ret' = r[2] /\ exc' = NoExc

\* obj.<name>, for a name normal lookup does not find
GetAttr ==
    /\ pc = "done"
    /\ \E name \in AttrNames :
          /\ call' = <<"__getattr__", name>>
          /\ Outcome(__getattr__(__dict__, name))
    /\ UNCHANGED <<cls, arg, validator, file_size, pc, __dict__>>

\* obj[key]
GetItem ==
    /\ pc = "done"
    /\ \E key \in ItemKeys :
          /\ call' = <<"__getitem__", key>>
          /\ Outcome(__getitem__(__dict__, key))
    /\ UNCHANGED <<cls, arg, validator, file_size, pc, __dict__>>

\* obj.keys(): __getattr__ hands out the raw dict's member, which is called
Keys ==
    /\ pc = "done"
    /\ __getattr__(__dict__, "keys") = Return(<<"member", "keys">>)
    /\ call' = <<"keys">>
    /\ ret' = <<"keys", DOMAIN __dict__["_data"]>>
    /\ exc' = NoExc
    /\ UNCHANGED <<cls, arg, validator, file_size, pc, __dict__>>

\* obj.<name> = value on a Config
SetAttr ==
    /\ pc = "done"
    /\ cls = "Config"
    /\ \E name \in SetNames, value \in SetValues :
          LET r == __setattr__(__dict__, name, value) IN
          /\ call' = <<"__setattr__", name, value>>
          /\ __dict__' = r[1]
          /\ exc' = r[2]
          /\ ret' = None
    /\ UNCHANGED <<cls, arg, validator, file_size, pc>>

Next ==
    \/ New
    \/ Validate
    \/ InitStore
    \/ DeriveGeometry
    \/ DeriveSpike
    \/ DeriveSize
    \/ DeriveBatch
    \/ GetAttr
    \/ GetItem
    \/ Keys
    \/ SetAttr

Spec == Init /\ [][Next]_vars

-----------------------------------------------------------------------------
\* What the properties below speak of

Items == arg[2]
Supplied(key) == \E i \in 1..Len(Items) : Items[i][1] = key
ArgValue(key) == Items[CHOOSE i \in 1..Len(Items) : Items[i][1] = key][2]
Store == __dict__["_data"]
HasStore == "_data" \in DOMAIN __dict__
Stored(name) == Store[name][2]

\* a reserved word gets the suffix '_', any other key is kept
Suffixed(key) == IF key \in kwlist THEN key \o "_" ELSE key

DerivedFields ==
    {"geom", "neighChannels", "channelGroups", "spikeSize", "scaleToSave",
     "BUFF", "templatesMaxShift", "stdFactor", "size", "dsize", "nBatches",
     "batch_size", "residual", "nPortion"}

\* the plan's two inputs, from the constructor's inputs: defined once the
\* element type is known and nChan is positive
ElementBytes == SIZE_[ArgValue("dtype")[2]]
TotalSampleCount ==
    file_size \div (ElementBytes * ArgValue("nChan")[2])
MaxSamplesPerBatch ==
    ArgValue("maxMem")[2] \div (ArgValue("nChan")[2] * ElementBytes)

ConfigDone == cls = "Config" /\ pc = "done"
AtBatch == cls = "Config" /\ pc = "batch"

\* n = ceil(num/den) for den > 0, said without division
IsCeil(n, num, den) == n * den >= num /\ (n - 1) * den < num

\* the plan stored by the step just taken is the multi-batch plan
MultiBatchPlanStored ==
    /\ pc' = "done"
    /\ LET d == __dict__'["_data"]
           nb == d["nBatches"][2]
       IN  /\ d["nBatches"][1] = "int"
           /\ IsCeil(nb, TotalSampleCount, MaxSamplesPerBatch)
           /\ d["batch_size"] = PyInt(MaxSamplesPerBatch)
           /\ d["residual"][2] \in 0..(MaxSamplesPerBatch - 1)
           /\ \E q \in 0..TotalSampleCount :
                 q * MaxSamplesPerBatch + d["residual"][2] = TotalSampleCount
           /\ d["nPortion"][1] = "float"
           /\ d["nPortion"][2] % 4 = 0
           /\ IsCeil(d["nPortion"][2] \div 4,
                     ArgValue("partialDat")[2] * nb, 4)

-----------------------------------------------------------------------------
\* C1: whenever maxSamplesPerBatch >= size, equality included, construction
\* ends with the single-batch plan nBatches = 1, batch_size = size,
\* residual = 0, nPortion = 1, whatever partialDat is (or whether it is
\* there at all).
C1_SingleBatchWhenFits ==
    [][(AtBatch /\ MaxSamplesPerBatch >= TotalSampleCount)
          => /\ pc' = "done"
             /\ __dict__'["_data"]["nBatches"] = PyInt(1)
             /\ __dict__'["_data"]["batch_size"] = PyInt(TotalSampleCount)
             /\ __dict__'["_data"]["residual"] = PyInt(0)
             /\ PyEq(__dict__'["_data"]["nPortion"], PyInt(1))]_vars

\* C2 as stated: whenever maxSamplesPerBatch < size, construction succeeds
\* with nBatches = ceil(size/maxSamplesPerBatch), batch_size =
\* maxSamplesPerBatch, residual = size mod maxSamplesPerBatch and
\* nPortion = ceil(partialDat * nBatches).
C2_MultiBatchAlways ==
    [][(AtBatch /\ MaxSamplesPerBatch < TotalSampleCount)
          => MultiBatchPlanStored]_vars

\* C2: whenever 0 < maxSamplesPerBatch < size and partialDat is supplied,
\* construction succeeds with nBatches = ceil(size/maxSamplesPerBatch),
\* batch_size = maxSamplesPerBatch, residual = size mod maxSamplesPerBatch
\* and nPortion = ceil(partialDat * nBatches).
C2_MultiBatch ==
    [][(/\ AtBatch
        /\ 0 < MaxSamplesPerBatch
        /\ MaxSamplesPerBatch < TotalSampleCount
        /\ Supplied("partialDat"))
          => MultiBatchPlanStored]_vars

C2_Witness ==
    /\ ConfigDone
    /\ MaxSamplesPerBatch = 3
    /\ TotalSampleCount = 4
    /\ Store["nBatches"] = PyInt(2)
    /\ Store["residual"] = PyInt(1)
    /\ ArgValue("partialDat") = PyFloat(3)
    /\ Store["nPortion"] = PyFloat(8)

-----------------------------------------------------------------------------
\* C3: on a constructed Config, every attempt to set an attribute whose
\* name does not start with '_' raises AttributeError and leaves the store
\* and the object's own attributes as they were, after any sequence of such
\* attempts, of internal writes and of reads.
C3_ExternalWriteFails ==
    [][(/\ ConfigDone
        /\ call'[1] = "__setattr__"
        /\ ~(Len(call'[2]) >= 1 /\ SubSeq(call'[2], 1, 1) = "_"))
          => /\ exc'[1] = "AttributeError"
             /\ __dict__' = __dict__]_vars

\* a write to a derived field was refused after an internal write went through
C3_Witness ==
    /\ ConfigDone
    /\ call = <<"__setattr__", "nBatches", PyStr("cfg.yaml")>>
    /\ exc[1] = "AttributeError"
    /\ __dict__["_path_to_file"] = PyStr("cfg.yaml")
    /\ Store["nBatches"] = PyInt(2)

-----------------------------------------------------------------------------
\* C4: a value outside the permitted list of a schema key, whatever the
\* list, the empty one included, makes construction fail with the
\* validation error before any store or derived field exists; and nothing
\* is stored before validation has passed.
C4_InvalidValueRejected ==
    /\ (cls = "Config" /\ pc \in {"new", "validate"}) => ~HasStore
    /\ (/\ cls = "Config"
        /\ pc \notin {"new", "validate"}
        /\ \E i \in 1..Len(Items) :
              /\ Items[i][1] \in DOMAIN validator
              /\ validator[Items[i][1]][1] = "list"
              /\ ~Contains(validator[Items[i][1]], Items[i][2]))
          => /\ pc = "error"
             /\ exc[1] = "ValueError"
             /\ exc[2][1] = "is not a valid value"
             /\ ~HasStore

-----------------------------------------------------------------------------
\* the relation the wrapping claim states between a value v and its wrap w,
\* with `suffix` saying whether reserved words are kept under a suffixed name
RECURSIVE IsWrapOf(_, _, _)
IsWrapOf(w, v, suffix) ==
    IF v[1] = "map"
    THEN /\ w[1] = "FrozenJSON"
         /\ DOMAIN w[2]["_data"] =
               {IF suffix THEN Suffixed(v[2][i][1]) ELSE v[2][i][1] :
                   i \in 1..Len(v[2])}
    ELSE IF v[1] = "list"
    THEN /\ w[1] = "list"
         /\ Len(w[2]) = Len(v[2])
         /\ \A i \in 1..Len(v[2]) : IsWrapOf(w[2][i], v[2][i], suffix)
    ELSE w = v

\* the value FrozenJSON(arg) evaluated to, once it has
Wrapped == IF pc = "returned" THEN ret ELSE <<"FrozenJSON", __dict__>>
WrapDone == cls = "FrozenJSON" /\ pc \in {"returned", "done"}

\* C5 as stated: the wrap of a mapping is a facade whose keys() is the
\* mapping's key set, the wrap of a list is the list of the wraps of its
\* elements in order, and any other value is returned unchanged.
C5_WrapKeepsKeys ==
    /\ WrapDone => IsWrapOf(Wrapped, arg, FALSE)
    /\ (WrapDone /\ call = <<"keys">>)
          => ret[2] = {Items[i][1] : i \in 1..Len(Items)}

\* C5: the wrap of a mapping is a facade whose keys() is the mapping's key
\* set with '_' appended to each reserved word, the wrap of a list is the
\* list of the wraps of its elements in order, and any other value is
\* returned unchanged.
C5_Wrap ==
    /\ WrapDone => IsWrapOf(Wrapped, arg, TRUE)
    /\ (WrapDone /\ call = <<"keys">>)
          => ret[2] = {Suffixed(Items[i][1]) : i \in 1..Len(Items)}

\* a list of a scalar and of a list holding a mapping was wrapped
C5_Witness ==
    /\ pc = "returned"
    /\ arg = PyList(<<PyStr("a"), PyList(<<PyMap(<< <<"a", None>> >>)>>)>>)
    /\ ret[2][1] = PyStr("a")
    /\ ret[2][2][2][1][1] = "FrozenJSON"
    /\ DOMAIN ret[2][2][2][1][2]["_data"] = {"a"}

-----------------------------------------------------------------------------
\* the items of the mapping whose key is a reserved word
KeywordItems == {i \in 1..Len(Items) : Items[i][1] \in kwlist}

-----------------------------------------------------------------------------
\* C7: key lookup returns the raw stored value exactly when the store holds
\* a non-null value for the key; otherwise it raises the missing-key error
\* naming the key and all the keys stored at that moment; either way it
\* leaves the store and the object unchanged.
C7_Lookup ==
    [][(pc = "done" /\ call'[1] = "__getitem__")
          => LET key == call'[2] IN
             /\ __dict__' = __dict__
             /\ IF key \in DOMAIN Store /\ Store[key] # None
                THEN exc' = NoExc /\ ret' = Store[key]
                ELSE /\ exc'[1] = "ValueError"
                     /\ exc'[2][3] = key
                     /\ exc'[2][4] = DOMAIN Store]_vars

\* the lookup of a key stored with a null value failed, naming both keys
C7_Witness ==
    /\ pc = "done"
    /\ call = <<"__getitem__", "a">>
    /\ "a" \in DOMAIN Store
    /\ Store["a"] = None
    /\ exc[1] = "ValueError"
    /\ exc[2][4] = {"a", "class_"}

-----------------------------------------------------------------------------
\* C8: the store is append-only during derivation: no step replaces the
\* value of a key already in the store, so every key the caller supplied
\* keeps its supplied value.
C8_AppendOnly ==
    [][(cls = "Config" /\ HasStore)
          => \A k \in DOMAIN Store :
                /\ k \in DOMAIN __dict__'["_data"]
                /\ __dict__'["_data"][k] = Store[k]]_vars

-----------------------------------------------------------------------------
\* C9 as stated: when validation starts, every key supplied by the caller
\* is in the store.
C9_StoreBeforeValidation ==
    (cls = "Config" /\ pc = "validate")
        => /\ HasStore
           /\ \A i \in 1..Len(Items) : Suffixed(Items[i][1]) \in DOMAIN Store

\* C9: when validation starts the object has no store yet; every key
\* supplied by the caller (a reserved word under its suffixed name) is in
\* the store once validation has passed and before the first derived field
\* is computed, and from then on.
C9_StoreBeforeDerivation ==
    /\ (cls = "Config" /\ pc = "validate") => ~HasStore
    /\ (cls = "Config"
        /\ pc \in {"geometry", "spike", "size", "batch", "done"})
          => /\ HasStore
             /\ \A i \in 1..Len(Items) :
                   Suffixed(Items[i][1]) \in DOMAIN Store

\* derivation is about to start on a store holding the caller's extra keys
C9_Witness ==
    /\ cls = "Config"
    /\ pc = "geometry"
    /\ Supplied("class")
    /\ Supplied("detector")
    /\ {"class_", "detector", "root"} \subseteq DOMAIN Store
    /\ DOMAIN Store \cap DerivedFields = {}

-----------------------------------------------------------------------------
\* C10: a constructed Config's plan accounts for exactly the total sample
\* count: residual is in 0..batch_size, below batch_size in the multi-batch
\* branch; nBatches * batch_size = size if residual = 0, and
\* (nBatches - 1) * batch_size + residual = size otherwise; and no Config is
\* constructed with maxSamplesPerBatch = 0 in the multi-batch branch.
C10_PlanCoversFile ==
    ConfigDone =>
        LET nb == Stored("nBatches")
            bs == Stored("batch_size")
            res == Stored("residual")
            multi == ~(MaxSamplesPerBatch > TotalSampleCount)
        IN  /\ Store["size"] = PyInt(TotalSampleCount)
            /\ res \in 0..bs
            /\ multi => res < bs
            /\ (res = 0) => nb * bs = TotalSampleCount
            /\ (res # 0) => (nb - 1) * bs + res = TotalSampleCount
            /\ ~(multi /\ MaxSamplesPerBatch = 0)

\* a file of three samples was planned as a batch of two and a residual of one
C10_Witness ==
    /\ ConfigDone
    /\ TotalSampleCount = 3
    /\ Store["batch_size"] = PyInt(2)
    /\ Store["nBatches"] = PyInt(2)
    /\ Store["residual"] = PyInt(1)

====
